---- MODULE Spec2Model ----
(***************************************************************************)
(* Model of the two scripts of os-dependent-python-api:                    *)
(*   scripts/coleta_dados.py  - the extractor and its driver loop          *)
(*   scripts/interpret2.py    - the flaky-test classifier                  *)
(* Text values are TLA+ strings; Python's str methods are modelled by what *)
(* they compute on the characters.                                         *)
(***************************************************************************)
EXTENDS Integers, Sequences, FiniteSets, TLC

VARIABLES
    pc,            \* position of the modelled run
    df,            \* interpret2: the rows read from the interchange file
    flaky_result,  \* interpret2: the frame analyze_flaky_tests returns
    data,          \* coleta_dados: the report handed to process_json
    rows,          \* coleta_dados: the list process_json returns
    subdirs,       \* coleta_dados.main: the directory listing
    idx,           \* coleta_dados.main: position of the loop over subdirs
    output         \* coleta_dados.main: data rows of final_all.csv

vars == <<pc, df, flaky_result, data, rows, subdirs, idx, output>>

(***************************************************************************)
(* Bounds of the model.                                                    *)
(***************************************************************************)
MaxRecords == 3
MaxTests == 2
MaxCollectors == 1
MaxProjects == 2

(***************************************************************************)
(* Python values that are not text.                                        *)
(***************************************************************************)
\* None, as dict.get returns it for an absent key or a JSON null.
None == "<None>"
\* A key that the JSON object does not have.
Absent == "<absent>"
\* pandas' missing value, read from an empty CSV field.
NaN == "<NaN>"

(***************************************************************************)
(* str helpers.                                                            *)
(***************************************************************************)
Char(s, k) == SubSeq(s, k, k)

\* The characters the model's texts use, in code-point order.
Ascii == " ,-./0123456789:<>ABCDEFGHIJKLMNOPQRSTUVWXYZ_abcdefghijklmnopqrstuvwxyz"

Ord(c) == CHOOSE k \in 1..Len(Ascii) : Char(Ascii, k) = c

\* Python's str < str: lexicographic by code point, a proper prefix first.
RECURSIVE StrLess(_, _)
StrLess(s, t) ==
    IF Len(t) = 0 THEN FALSE
    ELSE IF Len(s) = 0 THEN TRUE
    ELSE IF Char(s, 1) = Char(t, 1)
         THEN StrLess(SubSeq(s, 2, Len(s)), SubSeq(t, 2, Len(t)))
         ELSE Ord(Char(s, 1)) < Ord(Char(t, 1))

\* sorted(list(S)) for a set of str.
RECURSIVE sorted(_)
sorted(S) ==
    IF S = {} THEN <<>>
    ELSE LET m == CHOOSE x \in S : \A y \in S \ {x} : StrLess(x, y)
         IN  <<m>> \o sorted(S \ {m})

Range(q) == {q[k] : k \in DOMAIN q}

RECURSIVE SeqsUpTo(_, _)
SeqsUpTo(S, n) ==
    IF n = 0 THEN {<<>>}
    ELSE LET shorter == SeqsUpTo(S, n - 1)
         IN  shorter \cup {Append(q, x) : q \in {p \in shorter : Len(p) = n - 1}, x \in S}

(***************************************************************************)
(* interpret2.py : analyze_flaky_tests                                     *)
(***************************************************************************)
Environments == {"linux", "mac", "windows"}

\* The rows the interchange file can hold: project and test_name are text
\* (a pytest node id contains "::"), test_name is NaN when the field is empty.
Records ==
    [project : {"a"}, test_name : {"c", "b::c"},
     outcome : {"failed", "error"}, environment : Environments]
    \cup [project : {"a::b"}, test_name : {"c"},
          outcome : {"failed"}, environment : Environments]
    \cup [project : {"a"}, test_name : {NaN},
          outcome : {"failed"}, environment : Environments]

\* df['project'] + '::' + df['test_name']; text + NaN is NaN.
test_id(r) ==
    IF r.test_name = NaN THEN NaN ELSE r.project \o "::" \o r.test_name

\* set(df['environment'].unique())
all_environments(d) == {d[k].environment : k \in DOMAIN d}

\* set(df['test_id'].unique()) without the NaN key, which groupby drops.
group_keys(d) == {test_id(d[k]) : k \in DOMAIN d} \ {NaN}

\* df.groupby('test_id')['environment'].apply(set), for one key.
failing_environments(d, key) ==
    {d[k].environment : k \in {j \in DOMAIN d : test_id(d[j]) = key}}

\* A test counted as flaky whenever it misses one of the known systems.
IsFlakyMutant(failing_envs, all_envs) == Cardinality(failing_envs) < Cardinality(Environments)
\* if failing_envs != all_environments
IsFlaky(failing_envs, all_envs) == failing_envs # all_envs

\* The difference forgotten: every environment reported as passing.
MissingEnvsMutant(all_envs, failing_envs) == all_envs
\* missing_envs = all_environments - failing_envs
MissingEnvs(all_envs, failing_envs) == all_envs \ failing_envs

\* The flaky_tests list: one entry per flaky key, in groupby's sorted key order.
flaky_tests(d) ==
    LET all == all_environments(d)
        keys == sorted({key \in group_keys(d) : IsFlaky(failing_environments(d, key), all)})
    IN  [k \in DOMAIN keys |->
           LET failing == failing_environments(d, keys[k])
               missing == MissingEnvs(all, failing)
           IN  [test_id |-> keys[k],
                failing_environments |-> sorted(failing),
                passing_environments |-> sorted(missing),
                num_failing_envs |-> Cardinality(failing),
                num_passing_envs |-> Cardinality(missing)]]

\* df[['test_id','project','test_name','outcome']].drop_duplicates():
\* the first occurrence of each distinct row, in input order.
RECURSIVE test_details(_)
test_details(d) ==
    IF d = <<>> THEN <<>>
    ELSE LET front == test_details(SubSeq(d, 1, Len(d) - 1))
             last == d[Len(d)]
             row == [test_id |-> test_id(last), project |-> last.project,
                     test_name |-> last.test_name, outcome |-> last.outcome]
         IN  IF row \in Range(front) THEN front ELSE Append(front, row)

SelectSeqBy(q, key) ==
    LET F[k \in 0..Len(q)] ==
            IF k = 0 THEN <<>>
            ELSE IF q[k].test_id = key THEN Append(F[k - 1], q[k]) ELSE F[k - 1]
    IN  F[Len(q)]

\* flaky_df.merge(test_details, on='test_id', how='left')[column_order]:
\* for each left row, in order, one output row per matching right row.
RECURSIVE merge(_, _)
merge(left, right) ==
    IF left = <<>> THEN <<>>
    ELSE LET l == left[1]
             matches == SelectSeqBy(right, l.test_id)
         IN  [k \in DOMAIN matches |->
                [project |-> matches[k].project,
                 test_name |-> matches[k].test_name,
                 outcome |-> matches[k].outcome,
                 failing_environments |-> l.failing_environments,
                 passing_environments |-> l.passing_environments,
                 num_failing_envs |-> l.num_failing_envs,
                 num_passing_envs |-> l.num_passing_envs]]
             \o merge(SubSeq(left, 2, Len(left)), right)

\* The frame analyze_flaky_tests returns (empty when nothing is flaky).
analyze_flaky_tests(d) ==
    LET flaky == flaky_tests(d)
    IN  IF flaky = <<>> THEN <<>> ELSE merge(flaky, test_details(d))

InitClassifier ==
    /\ pc = "classify"
    /\ df \in SeqsUpTo(Records, MaxRecords)
    /\ flaky_result = <<>>
    /\ data = [tests |-> <<>>, collectors |-> <<>>]
    /\ rows = <<>>
    /\ subdirs = <<>>
    /\ idx = 1
    /\ output = <<>>

Analyze ==
    /\ pc = "classify"
    /\ flaky_result' = analyze_flaky_tests(df)
    /\ pc' = "classified"
    /\ UNCHANGED <<df, data, rows, subdirs, idx, output>>

NextClassifier == Analyze

SpecClassifier == InitClassifier /\ [][NextClassifier]_vars

(***************************************************************************)
(* coleta_dados.py : process_json                                          *)
(* A JSON object is a record; a key it lacks holds Absent (None for the    *)
(* keys the code reads with a plain .get, where a missing key and a null   *)
(* give the same None).  A stage is [kind, outcome, crash_lineno]: kind is *)
(* "none" for a missing or null stage, "empty" for {} and "object" for a   *)
(* non-empty object.  An optional line number is <<>> or <<n>>.            *)
(***************************************************************************)
StageNone == [kind |-> "none", outcome |-> None, crash_lineno |-> <<>>]
StageEmpty == [kind |-> "empty", outcome |-> None, crash_lineno |-> <<>>]
StagePassed == [kind |-> "object", outcome |-> "passed", crash_lineno |-> <<>>]
StageFailed == [kind |-> "object", outcome |-> "failed", crash_lineno |-> <<12>>]
StageError == [kind |-> "object", outcome |-> "error", crash_lineno |-> <<>>]
\* A non-empty stage object without an "outcome" key.
StageNoOutcome == [kind |-> "object", outcome |-> None, crash_lineno |-> <<30>>]

\* The entries of data["tests"] the model draws from.
TestEntries ==
    [nodeid : {"t.py::t1", "t.py::t2"}, lineno : {<<7>>},
     setup : {StageNone, StageEmpty, StagePassed},
     call : {StageNone, StageFailed},
     teardown : {StageNone, StageError}]
    \cup [nodeid : {None}, lineno : {<<>>}, setup : {StageEmpty},
          call : {StageNoOutcome}, teardown : {StagePassed}]

\* The entries of data["collectors"] the model draws from.
CollectorEntries ==
    [outcome : {"failed"}, nodeid : {Absent, None, "t.py::t1", "t.py"}]
    \cup [outcome : {"passed", None}, nodeid : {"t.py::t1"}]

Reports ==
    [tests : SeqsUpTo(TestEntries, MaxTests),
     collectors : SeqsUpTo(CollectorEntries, MaxCollectors)]

\* stages = ["setup", "call", "teardown"]
stages == <<"setup", "call", "teardown">>

\* test.get(stage)
StageData(test, stage) ==
    CASE stage = "setup" -> test.setup
      [] stage = "call" -> test.call
      [] stage = "teardown" -> test.teardown

\* "if stage_data is not None": an empty object would count as populated.
TruthyMutant(stage_data) == stage_data.kind # "none"
\* if stage_data: a missing stage, a null and {} are all falsy.
Truthy(stage_data) == stage_data.kind = "object"

\* crash.get("lineno", test.get("lineno"))
Lineno(test, stage_data) ==
    IF stage_data.crash_lineno # <<>> THEN stage_data.crash_lineno ELSE test.lineno

\* The stage loop without its break: a row for every truthy stage.
RECURSIVE StageScanNoBreak(_, _, _, _)
StageScanNoBreak(test, k, project, environment) ==
    IF k > Len(stages) THEN <<>>
    ELSE LET stage_data == StageData(test, stages[k])
             rest == StageScanNoBreak(test, k + 1, project, environment)
         IN  IF Truthy(stage_data)
             THEN <<[project |-> project,
                     test_name |-> test.nodeid,
                     outcome |-> stage_data.outcome,
                     lineno |-> Lineno(test, stage_data),
                     environment |-> environment]>> \o rest
             ELSE rest

\* The inner loop over the stages: the row of the first truthy stage, then break.
RECURSIVE StageScan(_, _, _, _)
StageScan(test, k, project, environment) ==
    IF k > Len(stages) THEN <<>>
    ELSE LET stage_data == StageData(test, stages[k])
         IN  IF Truthy(stage_data)
             THEN <<[project |-> project,
                     test_name |-> test.nodeid,
                     outcome |-> stage_data.outcome,
                     lineno |-> Lineno(test, stage_data),
                     environment |-> environment]>>
             ELSE StageScan(test, k + 1, project, environment)

\* Every collector that did not pass counted as failed.
CollectorFailedMutant(collector) == collector.outcome # "passed"
\* if collector.get("outcome") == "failed"
CollectorFailed(collector) == collector.outcome = "failed"

\* collector.get("nodeid", "<unknown>"): the default only for a missing key.
CollectorName(collector) ==
    IF collector.nodeid = Absent THEN "<unknown>" ELSE collector.nodeid

CollectorRows(collector, project, environment) ==
    IF CollectorFailed(collector)
    THEN <<[project |-> project,
            test_name |-> CollectorName(collector),
            outcome |-> "collection_error",
            lineno |-> <<>>,
            environment |-> environment]>>
    ELSE <<>>

RECURSIVE TestsLoop(_, _, _)
TestsLoop(tests, project, environment) ==
    IF tests = <<>> THEN <<>>
    ELSE StageScan(tests[1], 1, project, environment)
         \o TestsLoop(SubSeq(tests, 2, Len(tests)), project, environment)

RECURSIVE CollectorsLoop(_, _, _)
CollectorsLoop(collectors, project, environment) ==
    IF collectors = <<>> THEN <<>>
    ELSE CollectorRows(collectors[1], project, environment)
         \o CollectorsLoop(SubSeq(collectors, 2, Len(collectors)), project, environment)

\* The rows process_json returns for a parsed report.
process_json(report, project, environment) ==
    TestsLoop(report.tests, project, environment)
    \o CollectorsLoop(report.collectors, project, environment)

\* The project and environment one extraction pass stamps on its rows.
PassProject == "proj1"
PassEnvironment == "linux"

InitExtractor ==
    /\ pc = "extract"
    /\ data \in Reports
    /\ rows = <<>>
    /\ df = <<>>
    /\ flaky_result = <<>>
    /\ subdirs = <<>>
    /\ idx = 1
    /\ output = <<>>

Extract ==
    /\ pc = "extract"
    /\ rows' = process_json(data, PassProject, PassEnvironment)
    /\ pc' = "extracted"
    /\ UNCHANGED <<df, flaky_result, data, subdirs, idx, output>>

NextExtractor == Extract

SpecExtractor == InitExtractor /\ [][NextExtractor]_vars

(***************************************************************************)
(* coleta_dados.py : detect_environment, get_project_info_from_csv, main   *)
(***************************************************************************)
UpperCase == "ABCDEFGHIJKLMNOPQRSTUVWXYZ"
LowerCase == "abcdefghijklmnopqrstuvwxyz"

\* str.lower() on one character.
LowerChar(c) ==
    IF \E k \in 1..Len(UpperCase) : Char(UpperCase, k) = c
    THEN Char(LowerCase, CHOOSE k \in 1..Len(UpperCase) : Char(UpperCase, k) = c)
    ELSE c

\* str.lower()
RECURSIVE lower(_)
lower(s) ==
    IF Len(s) = 0 THEN ""
    ELSE LowerChar(Char(s, 1)) \o lower(SubSeq(s, 2, Len(s)))

\* sub in s
Contains(sub, s) ==
    \E k \in 1..(Len(s) - Len(sub) + 1) : SubSeq(s, k, k + Len(sub) - 1) = sub

Whitespace == {" ", "\t"}

\* str.strip()
RECURSIVE strip(_)
strip(s) ==
    IF Len(s) = 0 THEN ""
    ELSE IF Char(s, 1) \in Whitespace THEN strip(SubSeq(s, 2, Len(s)))
    ELSE IF Char(s, Len(s)) \in Whitespace THEN strip(SubSeq(s, 1, Len(s) - 1))
    ELSE s

\* ','.join(fields)
RECURSIVE join(_)
join(fields) ==
    IF fields = <<>> THEN ""
    ELSE IF Len(fields) = 1 THEN fields[1]
    ELSE fields[1] \o "," \o join(SubSeq(fields, 2, Len(fields)))

\* s.split(","): always at least one piece.
RECURSIVE split(_)
split(s) ==
    IF \E k \in 1..Len(s) : Char(s, k) = ","
    THEN LET k == CHOOSE j \in 1..Len(s) :
                      Char(s, j) = "," /\ \A m \in 1..(j - 1) : Char(s, m) # ","
         IN  <<SubSeq(s, 1, k - 1)>> \o split(SubSeq(s, k + 1, Len(s)))
    ELSE <<s>>

\* The keyword tests in another order: linux before mac.
detect_environment_linux_first(name) ==
    LET n == lower(name)
    IN  IF Contains("linux", n) \/ Contains("ubuntu", n) THEN "linux"
        ELSE IF Contains("mac", n) THEN "mac"
        ELSE IF Contains("windows", n) \/ Contains("win", n) THEN "windows"
        ELSE "unknown"

\* detect_environment(name)
detect_environment(name) ==
    LET n == lower(name)
    IN  IF Contains("mac", n) THEN "mac"
        ELSE IF Contains("linux", n) \/ Contains("ubuntu", n) THEN "linux"
        ELSE IF Contains("windows", n) \/ Contains("win", n) THEN "windows"
        ELSE "unknown"

\* get_project_info_from_csv, on the rows csv.reader yields: <<project, environment>>.
get_project_info_from_csv(lines) ==
    IF Len(lines) < 2 THEN <<None, None>>
    ELSE LET line_str == join(lines[2])
             pieces == split(line_str)
         IN  <<strip(pieces[1]), strip(pieces[Len(pieces)])>>

\* Python truthiness of a str-or-None value.
Falsy(v) == v = None \/ v = ""

\* environment = env_from_csv or detect_environment(csv_file)
ResolveEnvironment(env_from_csv, csv_file) ==
    IF Falsy(env_from_csv) THEN detect_environment(csv_file) ELSE env_from_csv

HeaderRow == <<"a", "b", "c">>

\* The metadata files the model draws from: the path os.walk found (None when
\* the folder has no .csv) and the rows csv.reader yields for it.
MetaFiles ==
    [csv_file : {"runs/MacOS-14/meta.csv", "runs/ubuntu-22/meta.csv",
                 "runs/Darwin/meta.csv", "runs/data/meta.csv",
                 "runs/machine-linux/meta.csv"},
     lines : {<<HeaderRow, <<" p2 ", "x", " ">>>>}]
    \cup [csv_file : {"runs/MacOS-14/meta.csv"},
          lines : {<<>>, <<HeaderRow>>,
                   <<HeaderRow, <<"proj1", " ", " ", " ", " linux">>>>,
                   <<HeaderRow, <<"a,b", "Windows ">>, <<"later", "mac">>>>,
                   <<HeaderRow, <<"solo">>>>,
                   <<HeaderRow, <<>>>>}]
    \cup [csv_file : {None}, lines : {<<>>}]

\* The report files: the path found (None when the folder has no .json),
\* whether json.load accepts the file, and the parsed report.
ReportA ==
    [tests |-> <<[nodeid |-> "t.py::t1", lineno |-> <<7>>, setup |-> StagePassed,
                  call |-> StageFailed, teardown |-> StageNone]>>,
     collectors |-> <<>>]
ReportB ==
    [tests |-> <<>>,
     collectors |-> <<[outcome |-> "failed", nodeid |-> "t.py"]>>]
NoReport == [tests |-> <<>>, collectors |-> <<>>]

ReportFiles ==
    [json_file : {"report.json"}, parses : {TRUE}, report : {ReportA, ReportB}]
    \cup [json_file : {"report.json"}, parses : {FALSE}, report : {NoReport}]
    \cup [json_file : {None}, parses : {FALSE}, report : {NoReport}]

\* The entries os.listdir(base_dir) can yield.
Subdirs ==
    [is_dir : {TRUE}, meta : MetaFiles, json : ReportFiles]
    \cup [is_dir : {FALSE}, meta : [csv_file : {None}, lines : {<<>>}],
          json : [json_file : {None}, parses : {FALSE}, report : {NoReport}]]

InitDriver ==
    /\ pc = "loop"
    /\ subdirs \in SeqsUpTo(Subdirs, MaxProjects)
    /\ idx = 1
    /\ output = <<>>
    /\ df = <<>>
    /\ flaky_result = <<>>
    /\ data = [tests |-> <<>>, collectors |-> <<>>]
    /\ rows = <<>>

InLoop == pc = "loop" /\ idx <= Len(subdirs)

FilesFound(sd) == sd.meta.csv_file # None /\ sd.json.json_file # None

\* if not os.path.isdir(subpath): continue
SkipNotDir ==
    /\ InLoop
    /\ ~subdirs[idx].is_dir
    /\ idx' = idx + 1
    /\ UNCHANGED <<pc, df, flaky_result, data, rows, subdirs, output>>

\* if not csv_file or not json_file: continue
SkipMissingFiles ==
    /\ InLoop
    /\ subdirs[idx].is_dir
    /\ ~FilesFound(subdirs[idx])
    /\ idx' = idx + 1
    /\ UNCHANGED <<pc, df, flaky_result, data, rows, subdirs, output>>

\* if not project_name: continue
SkipNoProject ==
    /\ InLoop
    /\ subdirs[idx].is_dir
    /\ FilesFound(subdirs[idx])
    /\ Falsy(get_project_info_from_csv(subdirs[idx].meta.lines)[1])
    /\ idx' = idx + 1
    /\ UNCHANGED <<pc, df, flaky_result, data, rows, subdirs, output>>

\* json.load raises inside process_json; nothing in main catches it.
ReportLoadFails ==
    /\ InLoop
    /\ subdirs[idx].is_dir
    /\ FilesFound(subdirs[idx])
    /\ ~Falsy(get_project_info_from_csv(subdirs[idx].meta.lines)[1])
    /\ ~subdirs[idx].json.parses
    /\ pc' = "crashed"
    /\ UNCHANGED <<df, flaky_result, data, rows, subdirs, idx, output>>

\* The rest of the loop body: resolve, extract, append to final_all.csv.
AppendRows ==
    /\ InLoop
    /\ subdirs[idx].is_dir
    /\ FilesFound(subdirs[idx])
    /\ subdirs[idx].json.parses
    /\ LET info == get_project_info_from_csv(subdirs[idx].meta.lines)
           environment == ResolveEnvironment(info[2], subdirs[idx].meta.csv_file)
       IN  /\ ~Falsy(info[1])
           /\ data' = subdirs[idx].json.report
           /\ rows' = process_json(subdirs[idx].json.report, info[1], environment)
           /\ output' = output \o rows'
    /\ idx' = idx + 1
    /\ UNCHANGED <<pc, df, flaky_result, subdirs>>

\* The loop is exhausted and main prints where the file was saved.
Finish ==
    /\ pc = "loop"
    /\ idx > Len(subdirs)
    /\ pc' = "done"
    /\ UNCHANGED <<df, flaky_result, data, rows, subdirs, idx, output>>

NextDriver ==
    \/ SkipNotDir
    \/ SkipMissingFiles
    \/ SkipNoProject
    \/ ReportLoadFails
    \/ AppendRows
    \/ Finish

SpecDriver == InitDriver /\ [][NextDriver]_vars

(***************************************************************************)
(* Properties of the classifier.                                           *)
(***************************************************************************)
\* The environment universe of the input: every distinct environment value.
EnvUniverse == {df[k].environment : k \in DOMAIN df}

\* The TestIdentities of the input that carry a test name.
Identities ==
    {<<df[k].project, df[k].test_name>> : k \in {j \in DOMAIN df : df[j].test_name # NaN}}

\* The environments of the records of one TestIdentity.
EnvsOfIdentity(id) ==
    {df[k].environment :
        k \in {j \in DOMAIN df : df[j].project = id[1] /\ df[j].test_name = id[2]}}

VerdictsOf(id) ==
    {k \in DOMAIN flaky_result :
        flaky_result[k].project = id[1] /\ flaky_result[k].test_name = id[2]}

\* C1: a TestIdentity (project, test_name) is in the flaky output if and only
\* if the set of environments of its records differs from the environment
\* universe, and then its verdict lists exactly those environments as failing.
C1_FlakyIffEnvsDiffer ==
    pc = "classified" =>
        \A id \in Identities :
            /\ (VerdictsOf(id) # {}) <=> (EnvsOfIdentity(id) # EnvUniverse)
            /\ \A k \in VerdictsOf(id) :
                   Range(flaky_result[k].failing_environments) = EnvsOfIdentity(id)

\* C2: in every verdict the failing and the passing environments are disjoint,
\* both non-empty, their union is the environment universe and the two counts
\* add up to the size of the universe.
C2_UniverseSubsetLaw ==
    pc = "classified" =>
        \A k \in DOMAIN flaky_result :
            LET failing == Range(flaky_result[k].failing_environments)
                passing == Range(flaky_result[k].passing_environments)
            IN  /\ failing \cap passing = {}
                /\ failing \cup passing = EnvUniverse
                /\ failing # {} /\ passing # {}
                /\ flaky_result[k].num_failing_envs = Cardinality(failing)
                /\ flaky_result[k].num_passing_envs = Cardinality(passing)
                /\ flaky_result[k].num_failing_envs + flaky_result[k].num_passing_envs
                       = Cardinality(EnvUniverse)

\* The scenario of the specification: a test recorded in linux and mac, with
\* universe {linux, mac, windows}, is flaky and passes in windows.
C2_Witness ==
    /\ pc = "classified"
    /\ EnvUniverse = {"linux", "mac", "windows"}
    /\ \E k \in DOMAIN flaky_result :
           /\ flaky_result[k].failing_environments = <<"linux", "mac">>
           /\ flaky_result[k].passing_environments = <<"windows">>

\* C3: when every record carries the same single environment, no verdict is
\* produced, whatever the projects, test names and outcomes are.
C3_SingleEnvironmentNoFlaky ==
    (pc = "classified" /\ Cardinality(EnvUniverse) = 1) => flaky_result = <<>>

\* One environment, several tests and differing outcomes, nothing flaky.
C3_Witness ==
    /\ pc = "classified"
    /\ Cardinality(EnvUniverse) = 1
    /\ Cardinality(Identities) >= 2
    /\ Cardinality({df[k].outcome : k \in DOMAIN df}) >= 2
    /\ flaky_result = <<>>

\* The first record of the input that belongs to a TestIdentity.
FirstRecordOf(id) ==
    df[CHOOSE k \in DOMAIN df :
          /\ df[k].project = id[1] /\ df[k].test_name = id[2]
          /\ \A j \in 1..(k - 1) : ~(df[j].project = id[1] /\ df[j].test_name = id[2])]

\* C9: the output holds exactly one verdict per flaky TestIdentity, with the
\* outcome of the first-seen record of its group, also when the group's
\* records carry differing outcomes.
C9_OneVerdictPerIdentity ==
    pc = "classified" =>
        \A id \in Identities :
            /\ Cardinality(VerdictsOf(id)) <= 1
            /\ \A k \in VerdictsOf(id) : flaky_result[k].outcome = FirstRecordOf(id).outcome

\* C10: the grouping key is injective on (project, test_identifier): records
\* of different identities never share a group, and no verdict's failing
\* environments merge the environments of two identities.
C10_KeyInjective ==
    pc = "classified" =>
        /\ \A j, k \in DOMAIN df :
               (df[j].test_name # NaN /\ df[k].test_name # NaN
                    /\ test_id(df[j]) = test_id(df[k]))
               => (df[j].project = df[k].project /\ df[j].test_name = df[k].test_name)
        /\ \A k \in DOMAIN flaky_result :
               Range(flaky_result[k].failing_environments)
                   = EnvsOfIdentity(<<flaky_result[k].project, flaky_result[k].test_name>>)

(***************************************************************************)
(* Properties of the extractor.                                            *)
(***************************************************************************)
Populated(stage_data) == stage_data.kind = "object"

HasPopulatedStage(test) ==
    Populated(test.setup) \/ Populated(test.call) \/ Populated(test.teardown)

\* The first stage, in the order setup, call, teardown, that is populated.
FirstPopulatedStage(test) ==
    IF Populated(test.setup) THEN test.setup
    ELSE IF Populated(test.call) THEN test.call
    ELSE test.teardown

PopulatedTests == SelectSeq(data.tests, HasPopulatedStage)

IsFailedCollector(collector) == collector.outcome = "failed"

FailedCollectors == SelectSeq(data.collectors, IsFailedCollector)

\* C4: every tests entry with a populated stage yields exactly one record, in
\* input order, whose outcome is that of the first populated stage among
\* setup, call, teardown; an entry with no populated stage yields none.
C4_FirstPopulatedStageWins ==
    pc = "extracted" =>
        /\ Len(rows) = Len(PopulatedTests) + Len(FailedCollectors)
        /\ \A k \in DOMAIN PopulatedTests :
               /\ rows[k].test_name = PopulatedTests[k].nodeid
               /\ rows[k].outcome = FirstPopulatedStage(PopulatedTests[k]).outcome

\* An entry with setup and call both populated yields the setup outcome only,
\* next to an entry with no populated stage that yields nothing.
C4_Witness ==
    /\ pc = "extracted"
    /\ \E k \in DOMAIN data.tests :
           /\ Populated(data.tests[k].setup) /\ Populated(data.tests[k].call)
           /\ data.tests[k].setup.outcome # data.tests[k].call.outcome
    /\ \E k \in DOMAIN data.tests : ~HasPopulatedStage(data.tests[k])
    /\ Len(rows) = 1
    /\ rows[1].outcome = "passed"

RowsNamed(name) == {k \in DOMAIN rows : rows[k].test_name = name}

TestsNamed(name) ==
    {k \in DOMAIN data.tests :
        data.tests[k].nodeid = name /\ HasPopulatedStage(data.tests[k])}

CollectorsNamed(name) ==
    {k \in DOMAIN data.collectors :
        /\ data.collectors[k].outcome = "failed"
        /\ name = (IF data.collectors[k].nodeid = Absent
                   THEN "<unknown>" ELSE data.collectors[k].nodeid)}

TestNames ==
    {rows[k].test_name : k \in DOMAIN rows}
    \cup {data.tests[k].nodeid : k \in DOMAIN data.tests}
    \cup {data.collectors[k].nodeid : k \in DOMAIN data.collectors}
    \cup {"<unknown>"}

\* C5 as stated: one extraction pass returns at most one record per
\* (project, test_identifier, environment) tuple, for every report.
C5_AtMostOneRecordPerTuple ==
    pc = "extracted" =>
        \A j, k \in DOMAIN rows :
            (/\ rows[j].test_name # None
             /\ rows[j].project = rows[k].project
             /\ rows[j].test_name = rows[k].test_name
             /\ rows[j].environment = rows[k].environment) => j = k

\* C5 as amended: every record carries the pass's project and environment,
\* and for each test identifier the pass returns one record per tests entry
\* with that nodeid and a populated stage plus one per failed collector with
\* that identifier; so the tuple is unique exactly when those are.
C5_OneRecordPerEntry ==
    pc = "extracted" =>
        /\ \A k \in DOMAIN rows :
               rows[k].project = PassProject /\ rows[k].environment = PassEnvironment
        /\ \A name \in TestNames :
               Cardinality(RowsNamed(name))
                   = Cardinality(TestsNamed(name)) + Cardinality(CollectorsNamed(name))

\* Two tests entries share a nodeid and both are recorded.
C5_Witness ==
    /\ pc = "extracted"
    /\ \E j, k \in DOMAIN data.tests :
           /\ j # k
           /\ data.tests[j].nodeid # None
           /\ data.tests[j].nodeid = data.tests[k].nodeid
           /\ HasPopulatedStage(data.tests[j]) /\ HasPopulatedStage(data.tests[k])
    /\ Len(rows) >= 2
    /\ rows[1].test_name = rows[2].test_name

\* C7: the records after the per-test records are one per failed collector,
\* in input order, each with outcome collection_error, no source line and the
\* collector's nodeid, or "<unknown>" when the collector has no nodeid key;
\* a collector with another outcome yields no record.
C7_CollectorRecords ==
    pc = "extracted" =>
        LET nTests == Len(PopulatedTests)
        IN  /\ Len(rows) = nTests + Len(FailedCollectors)
            /\ \A k \in DOMAIN FailedCollectors :
                   /\ rows[nTests + k].outcome = "collection_error"
                   /\ rows[nTests + k].lineno = <<>>
                   /\ rows[nTests + k].test_name =
                          (IF FailedCollectors[k].nodeid = Absent
                           THEN "<unknown>" ELSE FailedCollectors[k].nodeid)

\* A failed collector without a nodeid key is recorded under the placeholder.
C7_Witness ==
    /\ pc = "extracted"
    /\ \E k \in DOMAIN data.collectors :
           data.collectors[k].outcome = "failed" /\ data.collectors[k].nodeid = Absent
    /\ rows # <<>>
    /\ rows[Len(rows)].test_name = "<unknown>"
    /\ rows[Len(rows)].outcome = "collection_error"

(***************************************************************************)
(* Properties of the driver.                                               *)
(***************************************************************************)
\* A project the run can process: a folder with both artifacts, at least two
\* metadata rows naming a project, and a report that parses.
Processable(sd) ==
    /\ sd.is_dir
    /\ sd.meta.csv_file # None /\ sd.json.json_file # None
    /\ Len(sd.meta.lines) >= 2
    /\ strip(split(join(sd.meta.lines[2]))[1]) # ""
    /\ sd.json.parses

\* The trimmed last comma-separated field of metadata row index 1 when it is
\* non-empty, otherwise the keyword found in the metadata file's path.
ClaimedEnvironment(sd) ==
    LET pieces == split(join(sd.meta.lines[2]))
        field == strip(pieces[Len(pieces)])
        path == lower(sd.meta.csv_file)
    IN  IF field # "" THEN field
        ELSE IF Contains("mac", path) THEN "mac"
        ELSE IF Contains("linux", path) \/ Contains("ubuntu", path) THEN "linux"
        ELSE IF Contains("windows", path) \/ Contains("win", path) THEN "windows"
        ELSE "unknown"

\* The trimmed first comma-separated field of metadata row index 1.
ClaimedProject(sd) == strip(split(join(sd.meta.lines[2]))[1])

\* The rows a run that skips every failing project writes.
RECURSIVE ExpectedOutput(_)
ExpectedOutput(listing) ==
    IF listing = <<>> THEN <<>>
    ELSE (IF Processable(listing[1])
          THEN process_json(listing[1].json.report, ClaimedProject(listing[1]),
                            ClaimedEnvironment(listing[1]))
          ELSE <<>>)
         \o ExpectedOutput(SubSeq(listing, 2, Len(listing)))

\* C6: a project whose artifacts are missing, too short or unparseable is
\* skipped and every other project's rows are still written: however the run
\* ends, the file holds the rows of every processable project of the listing.
C6_FailureNeverAbortsRun ==
    pc \in {"done", "crashed"} => output = ExpectedOutput(subdirs)

\* C8: all rows one project appends carry the same environment, the trimmed
\* last field of metadata row 1 or, when that is empty, the keyword detected in
\* the metadata path (mac, then linux/ubuntu, then windows/win, else unknown),
\* and the project is the trimmed first field of that row.
C8_EnvironmentResolution ==
    [][\A k \in (Len(output) + 1)..Len(output') :
           /\ output'[k].environment = ClaimedEnvironment(subdirs[idx])
           /\ output'[k].project = ClaimedProject(subdirs[idx])]_vars

\* The file holds the rows of the specification's example ("proj1, , , , linux")
\* and rows of a project whose environment field is blank and whose path
\* names both mac and linux.
C8_Witness ==
    /\ pc = "done"
    /\ Len(subdirs) = 2
    /\ subdirs[1].meta.lines = <<HeaderRow, <<"proj1", " ", " ", " ", " linux">>>>
    /\ subdirs[2].meta.csv_file = "runs/machine-linux/meta.csv"
    /\ Len(output) = 2
    /\ output[1].project = "proj1" /\ output[1].environment = "linux"
    /\ output[2].project = "p2" /\ output[2].environment = "mac"

====
